---- MODULE Spec2Model ----
(***************************************************************************)
(* ms-enclave: the container sandbox lifecycle (DockerSandbox), its        *)
(* command execution, the manager's create_sandbox, and the notebook       *)
(* sandbox (JupyterDockerSandbox: gateway boot, kernel, websocket          *)
(* execute), as a state machine over one asyncio event loop, one container *)
(* engine and one kernel gateway.  Spec is the container sandbox,          *)
(* SpecNotebook the notebook sandbox, SpecTool the python_executor tool    *)
(* on a container sandbox, SpecManager the manager with its warm pool.     *)
(*                                                                         *)
(* One coroutine runs at a time (active); a coroutine gives up the loop    *)
(* only at an await that really suspends (the 0.5 s poll sleep, the        *)
(* executor future of execute_command, tool binding).  Every assignment to *)
(* the status field is a step of its own, so each status change is a       *)
(* transition of the model.                                                *)
(***************************************************************************)
EXTENDS Integers, Sequences, FiniteSets, TLC

\* ------------------------------------------------------------------ bounds
\* start() calls made on one sandbox object
MaxStarts == 2
\* execute_python_code calls on one notebook sandbox that send a request
MaxExecs == 2
\* sandbox ids the manager hands out
MaxSandboxes == 2
\* concurrent callers of execute_tool_in_pool
MaxCallers == 2

\* Sandbox objects share no field: the lifecycle is modelled for one object,
\* which the manager may own or a caller may have built with the factory.
Sandboxes == {1}
Tasks == 1..MaxStarts
\* Each start creates at most one kernel; each call has its own msg_id.
Kernels == 1..MaxStarts
Calls == 1..MaxExecs

\* --------------------------------------------------------------- constants
INITIALIZING == "initializing"
RUNNING == "running"
STOPPING == "stopping"
STOPPED == "stopped"
ERROR == "error"
CLEANUP == "cleanup"
SandboxStatus == {INITIALIZING, RUNNING, STOPPING, STOPPED, ERROR, CLEANUP}

SUCCESS == "success"
TIMEOUT == "timeout"
CANCELLED == "cancelled"
ExecutionStatus == {SUCCESS, ERROR, TIMEOUT, CANCELLED}

DOCKER == "docker"
DOCKER_NOTEBOOK == "docker_notebook"

\* timeout: Optional[int] = None
NoTimeout == -1
\* actual_timeout = timeout or 30
DefaultTimeout == 30

\* Inputs of execute_command: the caller's timeout and how long the command runs.
Timeouts == {NoTimeout, 0, 5}
Durations == {1, 10, 60}

\* The tools a config may name, and the sandbox kind each requires.
ToolNames == {"python_executor", "notebook_executor"}
ToolConfigs == {{"python_executor"}, {"python_executor", "notebook_executor"}}
required_sandbox_type(tool) ==
    IF tool = "python_executor" THEN DOCKER ELSE DOCKER_NOTEBOOK

Configs == [remove_on_exit : BOOLEAN, tools_config : ToolConfigs]
DefaultConfig == [remove_on_exit |-> TRUE, tools_config |-> {"python_executor"}]

VARIABLES
    owner,        \* who constructed the sandbox object: none, factory, manager
    config,       \* DockerSandboxConfig of the sandbox
    status,       \* Sandbox.status
    client,       \* self.client is not None
    container,    \* self.container is not None
    metadata,     \* which keys self.metadata holds
    tools,        \* names of the tools bound to the sandbox
    engine,       \* the engine's container named sandbox-<id>
    openClients,  \* engine clients this sandbox obtained and never called close() on
    task,         \* the start() calls of the sandbox and where each stands
    exec,         \* the execute_command call suspended on its executor future
    active,       \* the coroutine that holds the event loop
    sandboxes,    \* the manager's map: ids recorded in _sandboxes
    last,         \* the call that returned in the last step
    kind,         \* sandbox_type of the object: docker or docker_notebook
    image,        \* the engine holds an image tagged config.image
    base_url,     \* self.base_url is not None
    kernel_id,    \* self.kernel_id: the id of a kernel, 0 for None
    ws,           \* self.ws: the kernel whose channels it is connected to, 0 for None
    kernels,      \* the gateway's kernels: none, or the names their namespace holds
    requests,     \* execute_requests sent and not yet run by their kernel
    frames,       \* per connection, the frames the kernel sent and nobody read
    calls,        \* the execute_python_code calls and where each stands
    defined,      \* a call that defined x has returned since the last cleanup
    pycall,       \* the python_executor call in flight on the sandbox
    managed,      \* per id: in the manager's map, and the sandbox as it stands
    sandbox_pool, \* _sandbox_pool: the FIFO queue of idle pool ids
    busy,         \* the set of busy pool ids
    pool_initialized, \* _pool_initialized
    lease,        \* the execute_tool_in_pool callers and where each stands
    replacements, \* pool members to be replaced and not yet created
    pending       \* the stop_sandbox or delete_sandbox call waiting for the engine

nbvarsButImage == <<kind, base_url, kernel_id, ws, kernels, requests, frames,
                    calls, defined>>
nbvars == <<kind, image, base_url, kernel_id, ws, kernels, requests, frames,
            calls, defined>>
toolvars == <<pycall>>
mgrvars == <<managed, sandbox_pool, busy, pool_initialized, lease, replacements,
            pending>>
dockervars == <<owner, config, status, client, container, metadata, tools,
                engine, openClients, task, exec, active, sandboxes>>
vars == <<owner, config, status, client, container, metadata, tools, engine,
          openClients, task, exec, active, sandboxes, last, kind, image,
          base_url, kernel_id, ws, kernels, requests, frames, calls, defined,
          pycall, managed, sandbox_pool, busy, pool_initialized, lease,
          replacements, pending>>

Idle == <<>>
NoExec == [timeout |-> NoTimeout, waiting |-> FALSE, expires |-> FALSE, alive |-> FALSE]
NoTask == [pc |-> "unused", mgr |-> FALSE, saw |-> FALSE, bound |-> FALSE]
NoCall == [pc |-> "unused", code |-> "none", error_occurred |-> FALSE,
           read_any |-> FALSE, after_define |-> FALSE]
\* No python_executor call: ToolResult fields, the put_archive and exec_run
\* calls made so far, and the inputs of the call.
NoTool == [pc |-> "idle", code |-> <<>>, timeout |-> NoTimeout, dur |-> 0,
           mgr |-> FALSE, was_running |-> FALSE, writes |-> 0, commands |-> 0,
           status |-> "none", output |-> <<>>, error |-> "None", ran |-> FALSE]
NoEvent == [op |-> "none", s |-> 0, raised |-> FALSE, failed |-> FALSE,
            outer |-> "none", status |-> "none", exit_code |-> 0,
            timeout |-> NoTimeout, killed |-> FALSE, calls |-> 0,
            again |-> FALSE, changed |-> FALSE, code |-> "none",
            sock_error |-> FALSE, deadline |-> FALSE, idle |-> FALSE,
            after_define |-> FALSE, ws_failed |-> FALSE,
            delete_failed |-> FALSE, tool_code |-> <<>>, output |-> <<>>,
            error |-> "None", dur |-> 0, writes |-> 0, commands |-> 0,
            ran |-> FALSE, mgr |-> FALSE, was_running |-> FALSE,
            result |-> FALSE]

\* The caller holds a handle of the sandbox: it made it itself, or the
\* manager recorded it and hands it out.
Reachable(s) == owner[s] = "factory" \/ s \in sandboxes

Init ==
    /\ owner = [s \in Sandboxes |-> "none"]
    /\ config = [s \in Sandboxes |-> DefaultConfig]
    /\ status = [s \in Sandboxes |-> INITIALIZING]
    /\ client = [s \in Sandboxes |-> FALSE]
    /\ container = [s \in Sandboxes |-> FALSE]
    /\ metadata = [s \in Sandboxes |-> [error |-> FALSE, container_id |-> FALSE]]
    /\ tools = [s \in Sandboxes |-> {}]
    /\ engine = [s \in Sandboxes |-> "absent"]
    /\ openClients = [s \in Sandboxes |-> 0]
    /\ task = [s \in Sandboxes |-> [t \in Tasks |-> NoTask]]
    /\ exec = [s \in Sandboxes |-> NoExec]
    /\ active = Idle
    /\ sandboxes = {}
    /\ last = NoEvent
    /\ kind = [s \in Sandboxes |-> DOCKER]
    /\ image \in BOOLEAN
    /\ base_url = [s \in Sandboxes |-> FALSE]
    /\ kernel_id = [s \in Sandboxes |-> 0]
    /\ ws = [s \in Sandboxes |-> 0]
    /\ kernels = [k \in Kernels |-> "none"]
    /\ requests = <<>>
    /\ frames = [k \in Kernels |-> <<>>]
    /\ calls = [n \in Calls |-> NoCall]
    /\ defined = [s \in Sandboxes |-> FALSE]
    /\ pycall = [s \in Sandboxes |-> NoTool]
    /\ managed = [i \in 1..MaxSandboxes |->
                     [known |-> FALSE, status |-> "none", container |-> FALSE,
                      engine |-> "absent"]]
    /\ sandbox_pool = <<>>
    /\ busy = {}
    /\ pool_initialized = FALSE
    /\ lease = [c \in 1..MaxCallers |-> [pc |-> "idle", id |-> 0]]
    /\ replacements = 0
    /\ pending = [op |-> "none", id |-> 0]

\* --------------------------------------------------------------- helpers
Starting(s, t) == active = <<"start", s, t>>
Stopping(s) == active = <<"stop", s, 0>>
Goto(s, t, pc) == task' = [task EXCEPT ![s][t].pc = pc]
FreeTasks(s) == {t \in Tasks : task[s][t].pc = "unused"}
NextTask(s) == CHOOSE t \in FreeTasks(s) : \A u \in FreeTasks(s) : t <= u

\* What container.stop leaves of the engine's container.
AfterStop(e) == IF e \in {"starting", "running"} THEN "exited" ELSE e

\* ------------------------------------------------- DockerSandbox.cleanup
\* A cleanup whose client block lacks "finally: self.client = None".
CleanupKeepsClient(s, engineOk, closeOk) ==
    /\ engine' = IF container[s] /\ engineOk
                 THEN [engine EXCEPT ![s] = IF config[s].remove_on_exit
                                            THEN "absent"
                                            ELSE AfterStop(engine[s])]
                 ELSE engine
    /\ container' = [container EXCEPT ![s] = FALSE]
    /\ openClients' = IF client[s] /\ closeOk
                      THEN [openClients EXCEPT ![s] = openClients[s] - 1]
                      ELSE openClients
    /\ client' = IF closeOk THEN [client EXCEPT ![s] = FALSE] ELSE client

\* The container is removed (remove_on_exit) or stopped, the handle dropped;
\* the client is closed, the handle dropped.  Every engine failure is
\* swallowed.  engineOk, closeOk: whether the engine calls succeed (a
\* close() that raises is swallowed too and the handle dropped all the same).
CleanupEffect(s, engineOk, closeOk) ==
    /\ engine' = IF container[s] /\ engineOk
                 THEN [engine EXCEPT ![s] = IF config[s].remove_on_exit
                                            THEN "absent"
                                            ELSE AfterStop(engine[s])]
                 ELSE engine
    /\ container' = [container EXCEPT ![s] = FALSE]
    /\ openClients' = IF client[s]
                      THEN [openClients EXCEPT ![s] = openClients[s] - 1]
                      ELSE openClients
    /\ client' = [client EXCEPT ![s] = FALSE]

NoCleanup == UNCHANGED <<engine, container, openClients, client>>

\* Whether a call succeeds is a choice only when the call is made: it is
\* guarded by the handle it is made on.
Outcomes(held) == IF held THEN BOOLEAN ELSE {TRUE}

\* The engine calls one cleanup() makes: remove or stop when a container
\* handle is held, close when a client is held.
EngineCalls(s) ==
    (IF container[s] THEN 1 ELSE 0) + (IF client[s] THEN 1 ELSE 0)

cleanup(s) ==
    /\ active = Idle
    /\ Reachable(s)
    /\ \E engineOk \in BOOLEAN, closeOk \in BOOLEAN :
           CleanupEffect(s, engineOk, closeOk)
    /\ last' = [NoEvent EXCEPT !.op = "cleanup", !.s = s,
                               !.calls = EngineCalls(s),
                               !.again = (last.op = "cleanup" /\ last.s = s),
                               !.changed = (<<engine, container, openClients, client>>
                                            # <<engine, container, openClients, client>>')]
    /\ UNCHANGED <<owner, config, status, metadata, tools, task, exec, active,
                   sandboxes>>
    /\ UNCHANGED nbvars
    /\ UNCHANGED toolvars
    /\ UNCHANGED mgrvars

\* --------------------------------------------------- DockerSandbox.start
\* start() catches every exception of its body: it logs and returns.
StartPropagates(failed) == FALSE

\* update_status(INITIALIZING), the first statement of start().
BeginStart(s, t, mgr) ==
    /\ status' = [status EXCEPT ![s] = INITIALIZING]
    /\ task' = [task EXCEPT ![s][t] = [NoTask EXCEPT !.pc = "from_env", !.mgr = mgr]]
    /\ active' = <<"start", s, t>>
    /\ last' = NoEvent

start(s) ==
    /\ active = Idle
    /\ Reachable(s)
    /\ FreeTasks(s) # {}
    /\ BeginStart(s, NextTask(s), FALSE)
    /\ UNCHANGED <<owner, config, client, container, metadata, tools, engine,
                   openClients, exec, sandboxes>>
    /\ UNCHANGED nbvars
    /\ UNCHANGED toolvars
    /\ UNCHANGED mgrvars

\* self.client = docker.from_env(): a new client replaces the handle.
from_env(s, t) ==
    /\ Starting(s, t) /\ task[s][t].pc = "from_env"
    /\ \/ /\ client' = [client EXCEPT ![s] = TRUE]
          /\ openClients' = [openClients EXCEPT ![s] = openClients[s] + 1]
          /\ Goto(s, t, "ensure_image")
       \/ /\ Goto(s, t, "except")
          /\ UNCHANGED <<client, openClients>>
    /\ last' = NoEvent
    /\ UNCHANGED <<owner, config, status, container, metadata, tools, engine,
                   exec, active, sandboxes>>
    /\ UNCHANGED nbvars
    /\ UNCHANGED toolvars
    /\ UNCHANGED mgrvars

\* images.get; on ImageNotFound images.pull; a failed pull raises.
ImageOutcomes == {"found", "pulled", "pull_failed", "get_error"}
ensure_image_exists(s, t) ==
    /\ Starting(s, t) /\ task[s][t].pc = "ensure_image"
    /\ \E o \in ImageOutcomes :
           /\ o = "found" => image
           /\ o \in {"pulled", "pull_failed"} => ~image
           /\ image' = (image \/ o = "pulled")
           /\ Goto(s, t, IF o \in {"found", "pulled"} THEN "create" ELSE "except")
    /\ last' = NoEvent
    /\ UNCHANGED <<owner, config, status, client, container, metadata, tools,
                   engine, openClients, exec, active, sandboxes>>
    /\ UNCHANGED nbvarsButImage
    /\ UNCHANGED toolvars
    /\ UNCHANGED mgrvars

\* client.containers.create(name = sandbox-<id>, ...): the engine refuses a
\* name that is in use.
create_container(s, t) ==
    /\ Starting(s, t) /\ task[s][t].pc = "create"
    /\ \/ /\ engine[s] = "absent"
          /\ engine' = [engine EXCEPT ![s] = "created"]
          /\ container' = [container EXCEPT ![s] = TRUE]
          /\ metadata' = [metadata EXCEPT ![s].container_id = TRUE]
          /\ Goto(s, t, "start_container")
       \/ /\ Goto(s, t, "except")
          /\ UNCHANGED <<engine, container, metadata>>
    /\ last' = NoEvent
    /\ UNCHANGED <<owner, config, status, client, tools, openClients, exec,
                   active, sandboxes>>
    /\ UNCHANGED nbvars
    /\ UNCHANGED toolvars
    /\ UNCHANGED mgrvars

\* self.container.start()
start_container(s, t) ==
    /\ Starting(s, t) /\ task[s][t].pc = "start_container"
    /\ \/ /\ engine' = [engine EXCEPT ![s] = "starting"]
          /\ Goto(s, t, "poll")
       \/ /\ Goto(s, t, "except")
          /\ UNCHANGED engine
    /\ last' = NoEvent
    /\ UNCHANGED <<owner, config, status, client, container, metadata, tools,
                   openClients, exec, active, sandboxes>>
    /\ UNCHANGED nbvars
    /\ UNCHANGED toolvars
    /\ UNCHANGED mgrvars

\* A poll loop that leaves at the first reload, whatever the status.
PollBreaksAtOnce(engineStatus) == TRUE

\* The poll loop leaves with break only when the reloaded status is running.
PollBreaks(engineStatus) == engineStatus = "running"

\* One turn of the poll loop: reload, break when running, else sleep 0.5 s.
poll_reload(s, t) ==
    /\ Starting(s, t) /\ task[s][t].pc = "poll"
    /\ \/ /\ container[s] /\ engine[s] # "absent" /\ PollBreaks(engine[s])
          /\ task' = [task EXCEPT ![s][t].pc = "init_tools",
                                  ![s][t].saw = (engine[s] = "running")]
          /\ UNCHANGED active
       \/ /\ container[s] /\ engine[s] # "absent" /\ ~PollBreaks(engine[s])
          /\ Goto(s, t, "sleep")
          /\ active' = Idle
       \/ \* reload() raises, or self.container is None by now
          /\ Goto(s, t, "except")
          /\ UNCHANGED active
    /\ last' = NoEvent
    /\ UNCHANGED <<owner, config, status, client, container, metadata, tools,
                   engine, openClients, exec, sandboxes>>
    /\ UNCHANGED nbvars
    /\ UNCHANGED toolvars
    /\ UNCHANGED mgrvars

\* The sleep ends: the loop goes on while less than 30 s have passed, else
\* its else branch raises.
poll_wake(s, t) ==
    /\ active = Idle /\ task[s][t].pc = "sleep"
    /\ active' = <<"start", s, t>>
    /\ \/ Goto(s, t, "poll")
       \/ Goto(s, t, "except")
    /\ last' = NoEvent
    /\ UNCHANGED <<owner, config, status, client, container, metadata, tools,
                   engine, openClients, exec, sandboxes>>
    /\ UNCHANGED nbvars
    /\ UNCHANGED toolvars
    /\ UNCHANGED mgrvars

\* await self.initialize_tools(): the call gives up the loop ...
initialize_tools_await(s, t) ==
    /\ Starting(s, t) /\ task[s][t].pc = "init_tools"
    /\ Goto(s, t, "init_tools_wait")
    /\ active' = Idle
    /\ last' = NoEvent
    /\ UNCHANGED <<owner, config, status, client, container, metadata, tools,
                   engine, openClients, exec, sandboxes>>
    /\ UNCHANGED nbvars
    /\ UNCHANGED toolvars
    /\ UNCHANGED mgrvars

\* ... and binds every tool of the config's tool map, or fails the start
\* when a tool requires another sandbox kind.
initialize_tools(s, t) ==
    /\ active = Idle /\ task[s][t].pc = "init_tools_wait"
    /\ active' = <<"start", s, t>>
    /\ IF \A tool \in config[s].tools_config : required_sandbox_type(tool) = kind[s]
       THEN /\ tools' = [tools EXCEPT ![s] = config[s].tools_config]
            /\ task' = [task EXCEPT ![s][t].pc = "set_running", ![s][t].bound = TRUE]
       ELSE /\ Goto(s, t, "except")
            /\ UNCHANGED tools
    /\ last' = NoEvent
    /\ UNCHANGED <<owner, config, status, client, container, metadata,
                   engine, openClients, exec, sandboxes>>
    /\ UNCHANGED nbvars
    /\ UNCHANGED toolvars
    /\ UNCHANGED mgrvars

\* create_sandbox after its start() call: a start that raised is cleaned up
\* and the error surfaced; otherwise the sandbox is recorded in the map.
create_sandbox_finish(s, mgr, raised) ==
    IF mgr /\ raised
    THEN /\ \E engineOk \in BOOLEAN, closeOk \in BOOLEAN :
                CleanupEffect(s, engineOk, closeOk)
         /\ UNCHANGED sandboxes
    ELSE /\ NoCleanup
         /\ sandboxes' = IF mgr THEN sandboxes \cup {s} ELSE sandboxes

\* In a notebook sandbox start() was awaited by JupyterDockerSandbox.start,
\* which goes on with _setup_jupyter whatever the base start did.
StartReturn(s, t, failed) ==
    IF kind[s] = DOCKER_NOTEBOOK
    THEN /\ Goto(s, t, "build_image")
         /\ NoCleanup
         /\ last' = NoEvent
         /\ UNCHANGED <<active, sandboxes>>
    ELSE /\ task' = [task EXCEPT ![s][t] = [NoTask EXCEPT !.pc = "done"]]
         /\ active' = Idle
         /\ create_sandbox_finish(s, task[s][t].mgr, StartPropagates(failed))
         /\ last' = [NoEvent EXCEPT !.op = "start", !.s = s, !.failed = failed,
                                    !.raised = StartPropagates(failed),
                                    !.outer = IF ~task[s][t].mgr THEN "none"
                                              ELSE IF StartPropagates(failed)
                                                   THEN "raised" ELSE "returned"]

\* self.update_status(SandboxStatus.RUNNING), the last statement of the try.
set_running(s, t) ==
    /\ Starting(s, t) /\ task[s][t].pc = "set_running"
    /\ status' = [status EXCEPT ![s] = RUNNING]
    /\ StartReturn(s, t, FALSE)
    /\ UNCHANGED <<owner, config, metadata, tools, exec>>
    /\ UNCHANGED nbvars
    /\ UNCHANGED toolvars
    /\ UNCHANGED mgrvars

\* except Exception: status ERROR, metadata['error'] = str(e), log.
start_except(s, t) ==
    /\ Starting(s, t) /\ task[s][t].pc = "except"
    /\ status' = [status EXCEPT ![s] = ERROR]
    /\ metadata' = [metadata EXCEPT ![s].error = TRUE]
    /\ StartReturn(s, t, TRUE)
    /\ UNCHANGED <<owner, config, tools, exec>>
    /\ UNCHANGED nbvars
    /\ UNCHANGED toolvars
    /\ UNCHANGED mgrvars

\* The engine brings a started container up, or its process ends at once.
engine_settle(s) ==
    /\ engine[s] = "starting"
    /\ \E e \in {"running", "exited"} : engine' = [engine EXCEPT ![s] = e]
    /\ last' = NoEvent
    /\ UNCHANGED <<owner, config, status, client, container, metadata, tools,
                   openClients, task, exec, active, sandboxes>>
    /\ UNCHANGED nbvars
    /\ UNCHANGED toolvars
    /\ UNCHANGED mgrvars

\* ------------------------------------------------------- construction
\* SandboxFactory.create_sandbox: the object only, in INITIALIZING.
construct(s) ==
    /\ active = Idle
    /\ owner[s] = "none"
    /\ owner' = [owner EXCEPT ![s] = "factory"]
    /\ \E c \in Configs : config' = [config EXCEPT ![s] = c]
    /\ last' = NoEvent
    /\ UNCHANGED <<status, client, container, metadata, tools, engine,
                   openClients, task, exec, active, sandboxes>>
    /\ UNCHANGED nbvars
    /\ UNCHANGED toolvars
    /\ UNCHANGED mgrvars

\* manager.create_sandbox: construct, then await sandbox.start().
create_sandbox(s) ==
    /\ active = Idle
    /\ owner[s] = "none"
    /\ owner' = [owner EXCEPT ![s] = "manager"]
    /\ \E c \in Configs : config' = [config EXCEPT ![s] = c]
    /\ BeginStart(s, NextTask(s), TRUE)
    /\ UNCHANGED <<client, container, metadata, tools, engine, openClients,
                   exec, sandboxes>>
    /\ UNCHANGED nbvars
    /\ UNCHANGED toolvars
    /\ UNCHANGED mgrvars

\* ---------------------------------------------------- DockerSandbox.stop
\* if self.container: update_status(STOPPING) ...; with no handle stop()
\* returns at once.
stop(s) ==
    /\ active = Idle
    /\ Reachable(s)
    /\ IF container[s]
       THEN /\ status' = [status EXCEPT ![s] = STOPPING]
            /\ active' = <<"stop", s, 0>>
            /\ last' = NoEvent
       ELSE /\ last' = [NoEvent EXCEPT !.op = "stop", !.s = s]
            /\ UNCHANGED <<status, active>>
    /\ UNCHANGED <<owner, config, client, container, metadata, tools, engine,
                   openClients, task, exec, sandboxes>>
    /\ UNCHANGED nbvars
    /\ UNCHANGED toolvars
    /\ UNCHANGED mgrvars

\* ... self.container.stop(timeout=10); update_status(STOPPED); an engine
\* failure is logged and the status set to ERROR.
stop_container(s) ==
    /\ Stopping(s)
    /\ \/ /\ engine' = [engine EXCEPT ![s] = AfterStop(engine[s])]
          /\ status' = [status EXCEPT ![s] = STOPPED]
          /\ last' = [NoEvent EXCEPT !.op = "stop", !.s = s]
       \/ /\ status' = [status EXCEPT ![s] = ERROR]
          /\ last' = [NoEvent EXCEPT !.op = "stop", !.s = s, !.failed = TRUE]
          /\ UNCHANGED engine
    /\ active' = Idle
    /\ UNCHANGED <<owner, config, client, container, metadata, tools,
                   openClients, task, exec, sandboxes>>
    /\ UNCHANGED nbvars
    /\ UNCHANGED toolvars
    /\ UNCHANGED mgrvars

\* ----------------------------------------- DockerSandbox.execute_command
\* actual_timeout = timeout or 30: None and 0 are both falsy.
ActualTimeout(timeout) ==
    IF timeout = NoTimeout \/ timeout = 0 THEN DefaultTimeout ELSE timeout

\* asyncio.wait_for gives up when the future is not done within the timeout.
TimesOut(dur, actual_timeout) == dur > actual_timeout

\* Without a container handle the call raises RuntimeError; otherwise
\* exec_run goes to the executor and the call waits for it.
execute_command(s, timeout, dur) ==
    /\ active = Idle
    /\ Reachable(s)
    /\ ~exec[s].waiting
    /\ IF ~container[s]
       THEN /\ last' = [NoEvent EXCEPT !.op = "execute_command", !.s = s,
                                       !.raised = TRUE, !.timeout = timeout]
            /\ UNCHANGED exec
       ELSE /\ exec' = [exec EXCEPT ![s] =
                           [timeout |-> timeout,
                            waiting |-> TRUE,
                            expires |-> TimesOut(dur, ActualTimeout(timeout)),
                            alive |-> engine[s] = "running"]]
            /\ last' = NoEvent
    /\ UNCHANGED <<owner, config, status, client, container, metadata, tools,
                   engine, openClients, task, active, sandboxes>>
    /\ UNCHANGED nbvars
    /\ UNCHANGED toolvars
    /\ UNCHANGED mgrvars

\* What exec_run gives: an exit code, or "raise" for an engine error.
ExecOutcomes(s) == IF exec[s].alive THEN {0, 1, -1} ELSE {-1}

CommandResult(s, outcome) ==
    IF exec[s].expires
    THEN [status |-> TIMEOUT, exit_code |-> -1]
    ELSE IF outcome = -1
         THEN [status |-> ERROR, exit_code |-> -1]
         ELSE [status |-> IF outcome = 0 THEN SUCCESS ELSE ERROR,
               exit_code |-> outcome]

\* except asyncio.TimeoutError builds the timeout result and makes no
\* call to the engine: the exec process is not killed.
KillsExec(result) == FALSE

\* A command that marks the sandbox as failed when it did not succeed.
StatusAfterCommandMarksError(s, result) ==
    IF result.status = SUCCESS THEN status[s] ELSE ERROR

\* None of the three return paths of execute_command calls update_status:
\* the sandbox keeps its status whatever the command did.
StatusAfterCommand(s, result) == status[s]

\* The wait ends: the result, the timeout or the engine's error comes back
\* as a CommandResult.
execute_command_return(s) ==
    /\ active = Idle
    /\ exec[s].waiting
    /\ \E outcome \in ExecOutcomes(s) :
           /\ last' = [NoEvent EXCEPT !.op = "execute_command", !.s = s,
                                      !.status = CommandResult(s, outcome).status,
                                      !.exit_code = CommandResult(s, outcome).exit_code,
                                      !.timeout = exec[s].timeout,
                                      !.killed = KillsExec(CommandResult(s, outcome))]
           /\ status' = [status EXCEPT ![s] =
                             StatusAfterCommand(s, CommandResult(s, outcome))]
    /\ exec' = [exec EXCEPT ![s] = NoExec]
    /\ UNCHANGED <<owner, config, client, container, metadata, tools,
                   engine, openClients, task, active, sandboxes>>
    /\ UNCHANGED nbvars
    /\ UNCHANGED toolvars
    /\ UNCHANGED mgrvars

\* ------------------------------------------------------------------ Next
Next ==
    \/ \E s \in Sandboxes : construct(s)
    \/ \E s \in Sandboxes : create_sandbox(s)
    \/ \E s \in Sandboxes : start(s)
    \/ \E s \in Sandboxes, t \in Tasks : from_env(s, t)
    \/ \E s \in Sandboxes, t \in Tasks : ensure_image_exists(s, t)
    \/ \E s \in Sandboxes, t \in Tasks : create_container(s, t)
    \/ \E s \in Sandboxes, t \in Tasks : start_container(s, t)
    \/ \E s \in Sandboxes, t \in Tasks : poll_reload(s, t)
    \/ \E s \in Sandboxes, t \in Tasks : poll_wake(s, t)
    \/ \E s \in Sandboxes, t \in Tasks : initialize_tools_await(s, t)
    \/ \E s \in Sandboxes, t \in Tasks : initialize_tools(s, t)
    \/ \E s \in Sandboxes, t \in Tasks : set_running(s, t)
    \/ \E s \in Sandboxes, t \in Tasks : start_except(s, t)
    \/ \E s \in Sandboxes : engine_settle(s)
    \/ \E s \in Sandboxes : stop(s)
    \/ \E s \in Sandboxes : stop_container(s)
    \/ \E s \in Sandboxes : cleanup(s)
    \/ \E s \in Sandboxes, timeout \in Timeouts, dur \in Durations :
           execute_command(s, timeout, dur)
    \/ \E s \in Sandboxes : execute_command_return(s)

Spec == Init /\ [][Next]_vars

TypeOK ==
    /\ status \in [Sandboxes -> SandboxStatus]
    /\ client \in [Sandboxes -> BOOLEAN]
    /\ container \in [Sandboxes -> BOOLEAN]
    /\ engine \in [Sandboxes -> {"absent", "created", "starting", "running", "exited"}]
    /\ \A s \in Sandboxes : openClients[s] \in 0..MaxStarts
    /\ sandboxes \subseteq Sandboxes
    /\ kind \in [Sandboxes -> {DOCKER, DOCKER_NOTEBOOK}]
    /\ image \in BOOLEAN
    /\ base_url \in [Sandboxes -> BOOLEAN]
    /\ kernel_id \in [Sandboxes -> 0..MaxStarts]
    /\ ws \in [Sandboxes -> 0..MaxStarts]
    /\ kernels \in [Kernels -> {"none", "empty", "x", "deleted"}]
    /\ Len(requests) <= MaxExecs
    /\ \A k \in Kernels : Len(frames[k]) <= 2 * MaxExecs
    /\ \A n \in Calls : calls[n].pc \in {"unused", "send", "loop", "done"}
    /\ defined \in [Sandboxes -> BOOLEAN]
    /\ \A s \in Sandboxes : pycall[s].pc \in {"idle", "run", "rm"}
    /\ \A i \in 1..MaxSandboxes : managed[i].known \in BOOLEAN
    /\ \A k \in 1..Len(sandbox_pool) : sandbox_pool[k] \in 1..MaxSandboxes
    /\ busy \subseteq 1..MaxSandboxes
    /\ pool_initialized \in BOOLEAN
    /\ \A c \in 1..MaxCallers : lease[c].pc \in {"idle", "waiting", "executing"}
    /\ replacements \in 0..MaxSandboxes
    /\ pending.op \in {"none", "stop", "delete"}

\* ================================================== JupyterDockerSandbox
\* The notebook sandbox is a DockerSandbox: its start() runs the start
\* above, then _setup_jupyter; the gateway's kernels and the websocket are
\* the environment.  Kernel k's connection is numbered k: a start opens its
\* websocket on the channels of the kernel it has just created.

\* Inputs: the configs a notebook sandbox is built with, the codes given to
\* execute_python_code ("define": x = 7, "read": print(x + 1)).
NotebookConfigs == [remove_on_exit : {TRUE},
                    tools_config : {{"notebook_executor"}}]
Codes == {"define", "read"}

FreeCalls == {n \in Calls : calls[n].pc = "unused"}
NextCall == CHOOSE n \in FreeCalls : \A m \in FreeCalls : n <= m
FreeKernels == {k \in Kernels : kernels[k] = "none"}
NextKernel == CHOOSE k \in FreeKernels : \A j \in FreeKernels : k <= j
Alive(k) == kernels[k] \in {"empty", "x"}

\* JupyterDockerSandbox.__init__ through the factory.
notebook_construct(s) ==
    /\ active = Idle
    /\ owner[s] = "none"
    /\ owner' = [owner EXCEPT ![s] = "factory"]
    /\ kind' = [kind EXCEPT ![s] = DOCKER_NOTEBOOK]
    /\ \E c \in NotebookConfigs : config' = [config EXCEPT ![s] = c]
    /\ last' = NoEvent
    /\ UNCHANGED <<status, client, container, metadata, tools, engine,
                   openClients, task, exec, active, sandboxes, image, base_url,
                   kernel_id, ws, kernels, requests, frames, calls, defined>>
    /\ UNCHANGED toolvars
    /\ UNCHANGED mgrvars

\* JupyterDockerSandbox.start: await super().start() comes first.  The
\* caller awaits one start() of a notebook sandbox before it calls the next.
notebook_start(s) ==
    /\ kind[s] = DOCKER_NOTEBOOK
    /\ \A t \in Tasks : task[s][t].pc \in {"unused", "done"}
    /\ start(s)

\* _setup_jupyter logs and re-raises: start() raises to its caller.
SetupRaises(s, t) ==
    /\ task' = [task EXCEPT ![s][t] = [NoTask EXCEPT !.pc = "done"]]
    /\ active' = Idle
    /\ last' = [NoEvent EXCEPT !.op = "start", !.s = s, !.raised = TRUE,
                               !.failed = TRUE]

\* _build_jupyter_image: images.get; on any exception (the image is absent,
\* self.client is None) the image is built on the executor.
build_jupyter_image(s, t) ==
    /\ Starting(s, t) /\ task[s][t].pc = "build_image"
    /\ IF client[s] /\ image
       THEN /\ Goto(s, t, "service")
            /\ UNCHANGED active
       ELSE /\ Goto(s, t, IF client[s] THEN "building" ELSE "build_failing")
            /\ active' = Idle
    /\ last' = NoEvent
    /\ UNCHANGED <<owner, config, status, client, container, metadata, tools,
                   engine, openClients, exec, sandboxes>>
    /\ UNCHANGED nbvars
    /\ UNCHANGED toolvars
    /\ UNCHANGED mgrvars

\* The executor future of images.build ends: the image is there, or the
\* build (or the lambda, on a None client) raised.
build_jupyter_image_done(s, t) ==
    /\ active = Idle /\ task[s][t].pc \in {"building", "build_failing"}
    /\ \/ /\ task[s][t].pc = "building"
          /\ image' = TRUE
          /\ Goto(s, t, "service")
          /\ active' = <<"start", s, t>>
          /\ last' = NoEvent
       \/ /\ SetupRaises(s, t)
          /\ UNCHANGED image
    /\ UNCHANGED <<owner, config, status, client, container, metadata, tools,
                   engine, openClients, exec, sandboxes>>
    /\ UNCHANGED nbvarsButImage
    /\ UNCHANGED toolvars
    /\ UNCHANGED mgrvars

\* _start_jupyter_service: await self.execute_command(start_cmd), which
\* raises at once without a container handle and else waits for the exec.
start_jupyter_service(s, t) ==
    /\ Starting(s, t) /\ task[s][t].pc = "service"
    /\ IF container[s]
       THEN /\ Goto(s, t, "service_wait")
            /\ active' = Idle
            /\ last' = NoEvent
       ELSE SetupRaises(s, t)
    /\ UNCHANGED <<owner, config, status, client, container, metadata, tools,
                   engine, openClients, exec, sandboxes>>
    /\ UNCHANGED nbvars
    /\ UNCHANGED toolvars
    /\ UNCHANGED mgrvars

\* The CommandResult of the gateway command: exit code 0 sets base_url and
\* enters the probe loop, anything else raises.
start_jupyter_service_result(s, t) ==
    /\ active = Idle /\ task[s][t].pc = "service_wait"
    /\ \E exit_code \in (IF engine[s] = "running" THEN {0, 1} ELSE {-1}) :
           IF exit_code = 0
           THEN /\ base_url' = [base_url EXCEPT ![s] = TRUE]
                /\ Goto(s, t, "probe")
                /\ active' = <<"start", s, t>>
                /\ last' = NoEvent
           ELSE /\ SetupRaises(s, t)
                /\ UNCHANGED base_url
    /\ UNCHANGED <<owner, config, status, client, container, metadata, tools,
                   engine, openClients, exec, sandboxes>>
    /\ UNCHANGED <<kind, image, kernel_id, ws, kernels, requests, frames,
                   calls, defined>>
    /\ UNCHANGED toolvars
    /\ UNCHANGED mgrvars

\* One turn of the probe loop: GET /api/kernels; 200 breaks, anything else
\* sleeps 1 s.
probe(s, t) ==
    /\ Starting(s, t) /\ task[s][t].pc = "probe"
    /\ \/ /\ engine[s] = "running"
          /\ Goto(s, t, "create_kernel")
          /\ UNCHANGED active
       \/ /\ Goto(s, t, "probe_sleep")
          /\ active' = Idle
    /\ last' = NoEvent
    /\ UNCHANGED <<owner, config, status, client, container, metadata, tools,
                   engine, openClients, exec, sandboxes>>
    /\ UNCHANGED nbvars
    /\ UNCHANGED toolvars
    /\ UNCHANGED mgrvars

\* The sleep ends: the next of the 30 turns, or the loop's else raises.
probe_wake(s, t) ==
    /\ active = Idle /\ task[s][t].pc = "probe_sleep"
    /\ \/ /\ Goto(s, t, "probe")
          /\ active' = <<"start", s, t>>
          /\ last' = NoEvent
       \/ SetupRaises(s, t)
    /\ UNCHANGED <<owner, config, status, client, container, metadata, tools,
                   engine, openClients, exec, sandboxes>>
    /\ UNCHANGED nbvars
    /\ UNCHANGED toolvars
    /\ UNCHANGED mgrvars

\* _create_kernel, first half: POST /api/kernels; 201 gives the id of a
\* new kernel, anything else raises.
create_kernel(s, t) ==
    /\ Starting(s, t) /\ task[s][t].pc = "create_kernel"
    /\ \/ /\ engine[s] = "running" /\ FreeKernels # {}
          /\ kernels' = [kernels EXCEPT ![NextKernel] = "empty"]
          /\ kernel_id' = [kernel_id EXCEPT ![s] = NextKernel]
          /\ Goto(s, t, "create_connection")
          /\ UNCHANGED active
          /\ last' = NoEvent
       \/ /\ SetupRaises(s, t)
          /\ UNCHANGED <<kernels, kernel_id>>
    /\ UNCHANGED <<owner, config, status, client, container, metadata, tools,
                   engine, openClients, exec, sandboxes>>
    /\ UNCHANGED <<kind, image, base_url, ws, requests, frames, calls, defined>>
    /\ UNCHANGED toolvars
    /\ UNCHANGED mgrvars

\* _create_kernel, second half: create_connection on the channels of
\* self.kernel_id; start() returns when it succeeds and raises when not.
create_connection(s, t) ==
    /\ Starting(s, t) /\ task[s][t].pc = "create_connection"
    /\ \/ /\ Alive(kernel_id[s])
          /\ ws' = [ws EXCEPT ![s] = kernel_id[s]]
          /\ task' = [task EXCEPT ![s][t] = [NoTask EXCEPT !.pc = "done"]]
          /\ active' = Idle
          /\ last' = [NoEvent EXCEPT !.op = "start", !.s = s]
       \/ /\ SetupRaises(s, t)
          /\ UNCHANGED ws
    /\ UNCHANGED <<owner, config, status, client, container, metadata, tools,
                   engine, openClients, exec, sandboxes>>
    /\ UNCHANGED <<kind, image, base_url, kernel_id, kernels, requests, frames,
                   calls, defined>>
    /\ UNCHANGED toolvars
    /\ UNCHANGED mgrvars

\* ------------------------------ JupyterDockerSandbox.execute_python_code
Executing(s, n) == active = <<"execute", s, n>>

\* A ws.recv() that is awaited: the call gives up the loop at every frame.
RecvSuspendsAlways(frame) == TRUE

\* self.ws.recv() is a plain blocking call: the call keeps the event loop
\* while it reads.
RecvSuspends(frame) == FALSE

\* A call in its read loop goes on when it holds the loop, or takes the
\* loop back when a recv gave it up.
Reading(s, n) ==
    /\ calls[n].pc = "loop"
    /\ Executing(s, n) \/ active = Idle

\* status=ERROR if error_occurred else SUCCESS, exit_code=1 if
\* error_occurred else 0: whatever ended the loop.
NotebookResult(error_occurred) ==
    [status |-> IF error_occurred THEN ERROR ELSE SUCCESS,
     exit_code |-> IF error_occurred THEN 1 ELSE 0]

\* The guard of the call: without websocket or kernel id it raises; else
\* the body runs, first _send_execute_request.
execute_python_code(s, code) ==
    /\ active = Idle
    /\ Reachable(s) /\ kind[s] = DOCKER_NOTEBOOK
    /\ FreeCalls # {}
    /\ IF ws[s] = 0 \/ kernel_id[s] = 0
       THEN /\ last' = [NoEvent EXCEPT !.op = "execute_python_code", !.s = s,
                                       !.code = code, !.raised = TRUE]
            /\ UNCHANGED <<calls, active>>
       ELSE /\ calls' = [calls EXCEPT ![NextCall] =
                            [NoCall EXCEPT !.pc = "send", !.code = code]]
            /\ active' = <<"execute", s, NextCall>>
            /\ last' = NoEvent
    /\ UNCHANGED <<owner, config, status, client, container, metadata, tools,
                   engine, openClients, task, exec, sandboxes>>
    /\ UNCHANGED <<kind, image, base_url, kernel_id, ws, kernels, requests,
                   frames, defined>>
    /\ UNCHANGED toolvars
    /\ UNCHANGED mgrvars

\* The call returns its CommandResult and frees the loop.
ExecuteReturn(s, n, result, sock_error, deadline, idle) ==
    /\ calls' = [calls EXCEPT ![n] = [NoCall EXCEPT !.pc = "done"]]
    /\ active' = Idle
    /\ defined' = [defined EXCEPT ![s] =
                      @ \/ (calls[n].code = "define" /\ idle
                            /\ result.status = SUCCESS)]
    /\ last' = [NoEvent EXCEPT !.op = "execute_python_code", !.s = s,
                               !.code = calls[n].code,
                               !.status = result.status,
                               !.exit_code = result.exit_code,
                               !.sock_error = sock_error,
                               !.deadline = deadline, !.idle = idle,
                               !.after_define = calls[n].after_define]

\* _send_execute_request: ws.send of a request under a fresh msg_id; a send
\* that raises lands in the outer except: status error, exit code 1.
send_execute_request(s, n) ==
    /\ Executing(s, n) /\ calls[n].pc = "send"
    /\ \/ /\ requests' = Append(requests, [msg |-> n, code |-> calls[n].code,
                                           kernel |-> ws[s]])
          /\ calls' = [calls EXCEPT ![n].pc = "loop",
                                    ![n].after_define = defined[s]]
          /\ last' = NoEvent
          /\ UNCHANGED <<active, defined>>
       \/ /\ ExecuteReturn(s, n, NotebookResult(TRUE), TRUE, FALSE, FALSE)
          /\ UNCHANGED requests
    /\ UNCHANGED <<owner, config, status, client, container, metadata, tools,
                   engine, openClients, task, exec, sandboxes>>
    /\ UNCHANGED <<kind, image, base_url, kernel_id, ws, kernels, frames>>
    /\ UNCHANGED toolvars
    /\ UNCHANGED mgrvars

\* A read loop that takes every frame for its own.
RelatedAny(f, n) == TRUE

\* parent_msg_id != msg_id: continue.  The msg_id is the uuid4 of the
\* request, so a frame is related when it answers this request.
Related(f, n) == f.msg = n

\* One turn of the read loop.  The deadline test fails (after a recv that
\* took its time), or recv raises and the loop breaks, or a frame is read:
\* one of another request is skipped, stream and error are recorded, the
\* idle status breaks.  After the loop the result is built and returned.
recv(s, n) ==
    /\ Reading(s, n)
    /\ \/ /\ calls[n].read_any
          /\ ExecuteReturn(s, n, NotebookResult(calls[n].error_occurred),
                           FALSE, TRUE, FALSE)
          /\ UNCHANGED frames
       \/ /\ ExecuteReturn(s, n, NotebookResult(calls[n].error_occurred),
                           TRUE, FALSE, FALSE)
          /\ UNCHANGED frames
       \/ /\ ws[s] # 0 /\ frames[ws[s]] # <<>>
          /\ LET f == Head(frames[ws[s]]) IN
             /\ frames' = [frames EXCEPT ![ws[s]] = Tail(@)]
             /\ IF Related(f, n) /\ f.type = "idle"
                THEN ExecuteReturn(s, n, NotebookResult(calls[n].error_occurred),
                                   FALSE, FALSE, TRUE)
                ELSE /\ calls' = [calls EXCEPT
                            ![n].read_any = TRUE,
                            ![n].error_occurred =
                                @ \/ (Related(f, n) /\ f.type = "error")]
                     /\ active' = IF RecvSuspends(f) THEN Idle
                                  ELSE <<"execute", s, n>>
                     /\ last' = NoEvent
                     /\ UNCHANGED defined
    /\ UNCHANGED <<owner, config, status, client, container, metadata, tools,
                   engine, openClients, task, exec, sandboxes>>
    /\ UNCHANGED <<kind, image, base_url, kernel_id, ws, kernels, requests>>
    /\ UNCHANGED toolvars
    /\ UNCHANGED mgrvars

\* The kernel is one long-lived process: a name defined by a request stays
\* in its namespace.
StoreAfter(namespace, code) == IF code = "define" THEN "x" ELSE namespace

\* The frames a kernel answers a request with.
Reply(namespace, r) ==
    IF r.code = "define"
    THEN <<[msg |-> r.msg, type |-> "idle"]>>
    ELSE <<[msg |-> r.msg, type |-> IF namespace = "x" THEN "stream" ELSE "error"],
           [msg |-> r.msg, type |-> "idle"]>>

\* The kernel runs the oldest request it was sent and answers on the
\* connection, if that is still open.
kernel_execute ==
    /\ requests # <<>>
    /\ LET r == Head(requests) IN
       /\ requests' = Tail(requests)
       /\ IF Alive(r.kernel)
          THEN /\ kernels' = [kernels EXCEPT ![r.kernel] = StoreAfter(@, r.code)]
               /\ frames' = IF \E s \in Sandboxes : ws[s] = r.kernel
                            THEN [frames EXCEPT ![r.kernel] =
                                     @ \o Reply(kernels[r.kernel], r)]
                            ELSE frames
          ELSE UNCHANGED <<kernels, frames>>
    /\ last' = NoEvent
    /\ UNCHANGED <<owner, config, status, client, container, metadata, tools,
                   engine, openClients, task, exec, active, sandboxes>>
    /\ UNCHANGED <<kind, image, base_url, kernel_id, ws, calls, defined>>
    /\ UNCHANGED toolvars
    /\ UNCHANGED mgrvars

\* ------------------------------------------ JupyterDockerSandbox.cleanup
\* A cleanup whose steps share one try block: a step that raises skips
\* what follows it.
ReachesParentIfOk(wsOk, deleteOk) == wsOk /\ deleteOk

\* ws.close() and the DELETE each sit in a try/except of their own and
\* await super().cleanup() follows the outer try: the parent cleanup is
\* reached whatever the two steps did.
ReachesParent(wsOk, deleteOk) == TRUE

\* ws.close() and self.ws = None; DELETE of the kernel and self.kernel_id =
\* None; then DockerSandbox.cleanup.  A close or DELETE that fails is
\* swallowed and the field dropped all the same; a kernel whose DELETE
\* failed lives on in the gateway.
notebook_cleanup(s) ==
    /\ active = Idle
    /\ Reachable(s) /\ kind[s] = DOCKER_NOTEBOOK
    /\ \E wsOk \in Outcomes(ws[s] # 0),
          deleteOk \in Outcomes(kernel_id[s] # 0 /\ base_url[s]) :
          /\ ws' = [ws EXCEPT ![s] = 0]
          /\ frames' = IF ws[s] # 0 THEN [frames EXCEPT ![ws[s]] = <<>>] ELSE frames
          /\ IF kernel_id[s] # 0 /\ base_url[s]
             THEN /\ kernel_id' = [kernel_id EXCEPT ![s] = 0]
                  /\ kernels' = IF deleteOk
                                THEN [kernels EXCEPT ![kernel_id[s]] = "deleted"]
                                ELSE kernels
             ELSE UNCHANGED <<kernel_id, kernels>>
          /\ IF ReachesParent(wsOk, deleteOk)
             THEN \E engineOk \in Outcomes(container[s]),
                     closeOk \in Outcomes(client[s]) :
                      CleanupEffect(s, engineOk, closeOk)
             ELSE NoCleanup
          /\ last' = [NoEvent EXCEPT
                         !.op = "cleanup", !.s = s,
                         !.raised = ~ReachesParent(wsOk, deleteOk),
                         !.calls = EngineCalls(s),
                         !.again = (last.op = "cleanup" /\ last.s = s),
                         !.ws_failed = ~wsOk, !.delete_failed = ~deleteOk]
    /\ requests' = SelectSeq(requests, LAMBDA r : r.kernel \notin {ws[s], kernel_id[s]})
    /\ defined' = [defined EXCEPT ![s] = FALSE]
    /\ UNCHANGED <<owner, config, status, metadata, tools, task, exec, active,
                   sandboxes>>
    /\ UNCHANGED <<kind, image, base_url, calls>>
    /\ UNCHANGED toolvars
    /\ UNCHANGED mgrvars

NextNotebook ==
    \/ \E s \in Sandboxes : notebook_construct(s)
    \/ \E s \in Sandboxes : notebook_start(s)
    \/ \E s \in Sandboxes, t \in Tasks : from_env(s, t)
    \/ \E s \in Sandboxes, t \in Tasks : ensure_image_exists(s, t)
    \/ \E s \in Sandboxes, t \in Tasks : create_container(s, t)
    \/ \E s \in Sandboxes, t \in Tasks : start_container(s, t)
    \/ \E s \in Sandboxes, t \in Tasks : poll_reload(s, t)
    \/ \E s \in Sandboxes, t \in Tasks : poll_wake(s, t)
    \/ \E s \in Sandboxes, t \in Tasks : initialize_tools_await(s, t)
    \/ \E s \in Sandboxes, t \in Tasks : initialize_tools(s, t)
    \/ \E s \in Sandboxes, t \in Tasks : set_running(s, t)
    \/ \E s \in Sandboxes, t \in Tasks : start_except(s, t)
    \/ \E s \in Sandboxes : engine_settle(s)
    \/ \E s \in Sandboxes, t \in Tasks : build_jupyter_image(s, t)
    \/ \E s \in Sandboxes, t \in Tasks : build_jupyter_image_done(s, t)
    \/ \E s \in Sandboxes, t \in Tasks : start_jupyter_service(s, t)
    \/ \E s \in Sandboxes, t \in Tasks : start_jupyter_service_result(s, t)
    \/ \E s \in Sandboxes, t \in Tasks : probe(s, t)
    \/ \E s \in Sandboxes, t \in Tasks : probe_wake(s, t)
    \/ \E s \in Sandboxes, t \in Tasks : create_kernel(s, t)
    \/ \E s \in Sandboxes, t \in Tasks : create_connection(s, t)
    \/ \E s \in Sandboxes, code \in Codes : execute_python_code(s, code)
    \/ \E s \in Sandboxes, n \in Calls : send_execute_request(s, n)
    \/ \E s \in Sandboxes, n \in Calls : recv(s, n)
    \/ kernel_execute
    \/ \E s \in Sandboxes : notebook_cleanup(s)

SpecNotebook == Init /\ [][NextNotebook]_vars

\* ======================================================== PythonExecutor
\* Source text is a sequence of items: blanks, line ends and statements.
\* Printed text and stdout are sequences of characters; a fixed word of the
\* result frame is one item (it holds no character a statement prints).
Whitespace == {" ", "\n"}
ToolCodes == {<<>>, <<" ", "\n">>,
              <<"print(2 + 2)">>,
              <<"\n", "print('a\"b')", " ">>,
              <<"raise ValueError">>,
              <<"print(2 + 2)", "\n", "raise ValueError">>}

\* str.strip(): leading and trailing whitespace removed.
RECURSIVE lstrip(_)
lstrip(code) ==
    IF code # <<>> /\ Head(code) \in Whitespace THEN lstrip(Tail(code)) ELSE code
RECURSIVE rstrip(_)
rstrip(code) ==
    IF code # <<>> /\ code[Len(code)] \in Whitespace
    THEN rstrip(SubSeq(code, 1, Len(code) - 1))
    ELSE code
strip(code) == rstrip(lstrip(code))

\* A guard that tests the code without stripping it.
NoCodeProvidedUnstripped(code) == code = <<>>

\* if not code.strip(): return ... 'No code provided'
NoCodeProvided(code) == strip(code) = <<>>

\* What the interpreter does with one statement.
Prints(stmt) ==
    IF stmt = "print(2 + 2)" THEN <<"4", "\n">>
    ELSE IF stmt = "print('a\"b')" THEN <<"a", "\"", "b", "\n">>
    ELSE <<>>
Raises(stmt) == stmt = "raise ValueError"

\* exec(code) under redirect_stdout: the text captured, and whether a
\* statement raised (the statements after it do not run).
RECURSIVE Run(_)
Run(code) ==
    IF code = <<>> THEN [output |-> <<>>, raised |-> FALSE]
    ELSE IF Raises(Head(code)) THEN [output |-> <<>>, raised |-> TRUE]
    ELSE [output |-> Prints(Head(code)) \o Run(Tail(code)).output,
          raised |-> Run(Tail(code)).raised]

\* json.dumps of a string: quotes around it, the quote, the backslash and
\* the line end escaped.
RECURSIVE Escape(_)
Escape(text) ==
    IF text = <<>> THEN <<>>
    ELSE (IF Head(text) = "\n" THEN <<"\\", "n">>
          ELSE IF Head(text) \in {"\"", "\\"} THEN <<"\\", Head(text)>>
          ELSE <<Head(text)>>) \o Escape(Tail(text))
JsonString(text) == <<"\"">> \o Escape(text) \o <<"\"">>

\* json.dumps(_execution_result, ensure_ascii=False, indent=2); error is
\* None (<<>>) or a text.
JsonDumps(r) ==
    <<"{", "\n", "  ", "\"", "status", "\"", ": ", "\"", r.status, "\"", ",",
      "\n", "  ", "\"", "output", "\"", ": ">> \o JsonString(r.output)
    \o <<",", "\n", "  ", "\"", "error", "\"", ": ">>
    \o (IF r.error = <<>> THEN <<"null">> ELSE JsonString(r.error))
    \o <<"\n", "}">>

\* The stdout of the staged script: it runs the code, catches what it
\* raises, and prints the marker line and the result as JSON.
ScriptStdout(code) ==
    <<"=== EXECUTION_RESULT ===", "\n">>
    \o JsonDumps([status |-> IF Run(code).raised THEN "error" ELSE "success",
                  output |-> Run(code).output,
                  error |-> IF Run(code).raised
                            THEN <<"ValueError: ", "\n", "Traceback">>
                            ELSE <<>>])
    \o <<"\n">>

\* stdout and stderr of the CommandResult of "python <script>": the script
\* always exits 0; another exit code is the interpreter's own failure.
CommandStdout(s, outcome, code) ==
    IF exec[s].expires \/ outcome = -1 THEN <<>>
    ELSE IF outcome = 0 THEN ScriptStdout(code)
    ELSE <<"python: error">>
CommandStderr(s, outcome) ==
    IF exec[s].expires THEN "Command timed out"
    ELSE IF outcome = -1 THEN "engine error"
    ELSE ""

\* status = SUCCESS if result.exit_code == 0 else ERROR; output = stdout;
\* error = stderr if stderr else None.
ToolResult(s, outcome, code) ==
    [status |-> IF CommandResult(s, outcome).exit_code = 0 THEN SUCCESS ELSE ERROR,
     output |-> CommandStdout(s, outcome, code),
     error |-> IF CommandStderr(s, outcome) # "" THEN CommandStderr(s, outcome)
               ELSE "None",
     ran |-> CommandResult(s, outcome).exit_code = 0]

\* The call returns what the call record holds.
ToolEvent(s, c) ==
    [NoEvent EXCEPT !.op = "python_executor", !.s = s, !.status = c.status,
                    !.output = c.output, !.error = c.error, !.ran = c.ran,
                    !.tool_code = c.code, !.timeout = c.timeout,
                    !.dur = c.dur, !.mgr = c.mgr,
                    !.was_running = c.was_running,
                    !.writes = c.writes, !.commands = c.commands]

\* finally: execute_command('rm -f <script>', timeout=5); its result is
\* dropped, and with no container handle its RuntimeError is swallowed.
RemoveScript(s, c) ==
    IF container[s]
    THEN /\ pycall' = [pycall EXCEPT ![s] =
                          [c EXCEPT !.pc = "rm", !.commands = c.commands + 1]]
         /\ exec' = [exec EXCEPT ![s] = [timeout |-> 5, waiting |-> TRUE,
                                         expires |-> FALSE,
                                         alive |-> engine[s] = "running"]]
         /\ last' = NoEvent
    ELSE /\ pycall' = [pycall EXCEPT ![s] = NoTool]
         /\ exec' = [exec EXCEPT ![s] = NoExec]
         /\ last' = ToolEvent(s, c)

\* PythonExecutor.execute up to its first suspension.  The guard comes
\* before the try, so its return runs no finally.  putOk: put_archive
\* succeeds; dur: how long the script runs when nothing stops it.  With no
\* container handle put_archive is an attribute error on None: no call is
\* made.  One call at a time is followed on a sandbox.
Execute(s, code, timeout, dur, putOk, mgr) ==
    LET c == [NoTool EXCEPT !.code = code, !.timeout = timeout, !.mgr = mgr,
                            !.was_running = (status[s] = RUNNING)]
        failed == [c EXCEPT !.status = ERROR, !.error = "Execution failed"]
    IN  IF NoCodeProvided(code)
        THEN /\ last' = ToolEvent(s, [c EXCEPT !.status = ERROR,
                                               !.error = "No code provided"])
             /\ UNCHANGED <<pycall, exec>>
        ELSE IF ~container[s]
        THEN RemoveScript(s, failed)
        ELSE IF ~putOk
        THEN RemoveScript(s, [failed EXCEPT !.writes = 1])
        ELSE /\ pycall' = [pycall EXCEPT ![s] =
                              [c EXCEPT !.pc = "run", !.dur = dur,
                                        !.writes = 1, !.commands = 1]]
             /\ exec' = [exec EXCEPT ![s] =
                            [timeout |-> timeout,
                             waiting |-> TRUE,
                             expires |-> TimesOut(dur, ActualTimeout(timeout)),
                             alive |-> engine[s] = "running"]]
             /\ last' = NoEvent

\* tool.execute(sandbox, code=..., timeout=...) on a sandbox the caller holds.
execute(s, code, timeout) ==
    /\ active = Idle
    /\ Reachable(s)
    /\ pycall[s].pc = "idle" /\ ~exec[s].waiting
    /\ \E dur \in Durations, putOk \in Outcomes(container[s]) :
           Execute(s, code, timeout, dur, putOk, FALSE)
    /\ UNCHANGED <<owner, config, status, client, container, metadata, tools,
                   engine, openClients, task, active, sandboxes>>
    /\ UNCHANGED nbvars
    /\ UNCHANGED mgrvars

\* A lookup that finds every id.
KnownAlways(s) == TRUE

\* The manager knows the id.
Known(s) == s \in sandboxes

\* manager.execute_tool(id, 'python_executor', params): an unknown id is
\* NotFound; the sandbox rejects the call when it is not running or the
\* tool is not bound; otherwise the tool's execute runs.
execute_tool(s, code, timeout) ==
    /\ active = Idle
    /\ pycall[s].pc = "idle" /\ ~exec[s].waiting
    /\ IF ~Known(s)
       THEN /\ last' = [NoEvent EXCEPT !.op = "execute_tool", !.s = s,
                                       !.raised = TRUE, !.error = "NotFound"]
            /\ UNCHANGED <<pycall, exec>>
       ELSE IF status[s] # RUNNING \/ "python_executor" \notin tools[s]
       THEN /\ last' = [NoEvent EXCEPT !.op = "execute_tool", !.s = s,
                                       !.raised = TRUE, !.error = "rejected"]
            /\ UNCHANGED <<pycall, exec>>
       ELSE \E dur \in Durations, putOk \in Outcomes(container[s]) :
                Execute(s, code, timeout, dur, putOk, TRUE)
    /\ UNCHANGED <<owner, config, status, client, container, metadata, tools,
                   engine, openClients, task, active, sandboxes>>
    /\ UNCHANGED nbvars
    /\ UNCHANGED mgrvars

\* execute_command('python <script>') returns: the ToolResult is built,
\* then the finally block runs.
execute_resume(s) ==
    /\ active = Idle
    /\ pycall[s].pc = "run" /\ exec[s].waiting
    /\ \E outcome \in ExecOutcomes(s) :
           RemoveScript(s, [pycall[s] EXCEPT
                               !.status = ToolResult(s, outcome, pycall[s].code).status,
                               !.output = ToolResult(s, outcome, pycall[s].code).output,
                               !.error = ToolResult(s, outcome, pycall[s].code).error,
                               !.ran = ToolResult(s, outcome, pycall[s].code).ran])
    /\ UNCHANGED <<owner, config, status, client, container, metadata, tools,
                   engine, openClients, task, active, sandboxes>>
    /\ UNCHANGED nbvars
    /\ UNCHANGED mgrvars

\* The rm returns, whatever its result: the ToolResult goes to the caller.
execute_finally(s) ==
    /\ active = Idle
    /\ pycall[s].pc = "rm" /\ exec[s].waiting
    /\ last' = ToolEvent(s, pycall[s])
    /\ pycall' = [pycall EXCEPT ![s] = NoTool]
    /\ exec' = [exec EXCEPT ![s] = NoExec]
    /\ UNCHANGED <<owner, config, status, client, container, metadata, tools,
                   engine, openClients, task, active, sandboxes>>
    /\ UNCHANGED nbvars
    /\ UNCHANGED mgrvars

NextTool ==
    \/ \E s \in Sandboxes : construct(s)
    \/ \E s \in Sandboxes : create_sandbox(s)
    \/ \E s \in Sandboxes, t \in Tasks : from_env(s, t)
    \/ \E s \in Sandboxes, t \in Tasks : ensure_image_exists(s, t)
    \/ \E s \in Sandboxes, t \in Tasks : create_container(s, t)
    \/ \E s \in Sandboxes, t \in Tasks : start_container(s, t)
    \/ \E s \in Sandboxes, t \in Tasks : poll_reload(s, t)
    \/ \E s \in Sandboxes, t \in Tasks : poll_wake(s, t)
    \/ \E s \in Sandboxes, t \in Tasks : initialize_tools_await(s, t)
    \/ \E s \in Sandboxes, t \in Tasks : initialize_tools(s, t)
    \/ \E s \in Sandboxes, t \in Tasks : set_running(s, t)
    \/ \E s \in Sandboxes, t \in Tasks : start_except(s, t)
    \/ \E s \in Sandboxes : engine_settle(s)
    \/ \E s \in Sandboxes : stop(s)
    \/ \E s \in Sandboxes : stop_container(s)
    \/ \E s \in Sandboxes : cleanup(s)
    \/ \E s \in Sandboxes, code \in ToolCodes, timeout \in Timeouts :
           execute(s, code, timeout)
    \/ \E s \in Sandboxes, code \in ToolCodes, timeout \in Timeouts :
           execute_tool(s, code, timeout)
    \/ \E s \in Sandboxes : execute_resume(s)
    \/ \E s \in Sandboxes : execute_finally(s)

SpecTool == Init /\ [][NextTool]_vars

\* ==================================================== LocalSandboxManager
\* The manager with its warm pool, over several sandboxes.  A sandbox is
\* kept by what the manager sees of it: its status, whether it holds a
\* container handle, and the engine's container.  start() is taken by its
\* outcomes; stop and cleanup are DockerSandbox's.
Ids == 1..MaxSandboxes
Callers == 1..MaxCallers
PoolSizes == 1..MaxSandboxes

NoBox == [known |-> FALSE, status |-> "none", container |-> FALSE,
          engine |-> "absent"]
\* One stop_sandbox or delete_sandbox call at a time is followed while it
\* waits for the engine.
NoPending == [op |-> "none", id |-> 0]

\* How DockerSandbox.start leaves a sandbox when create_sandbox gets it back:
\* running, or failed before the container was created (start swallows the
\* failure and returns).
StartOutcomes ==
    {[status |-> RUNNING, container |-> TRUE, engine |-> "running"],
     [status |-> ERROR, container |-> FALSE, engine |-> "absent"]}

Created(o) == [NoBox EXCEPT !.known = TRUE, !.status = o.status,
                            !.container = o.container, !.engine = o.engine]

\* Ids never given to a sandbox, and the first n of them.
FreshIds == {i \in Ids : managed[i].status = "none"}
FirstFresh(n) == {i \in FreshIds : Cardinality({j \in FreshIds : j < i}) < n}

\* The ids of a queue, and a queue without an id.
Members(queue) == {queue[k] : k \in 1..Len(queue)}
Without(queue, i) == SelectSeq(queue, LAMBDA j : j # i)
\* Ascending sequence of a set of ids.
RECURSIVE Ascending(_)
Ascending(S) ==
    IF S = {} THEN <<>>
    ELSE LET m == CHOOSE i \in S : \A j \in S : i <= j
         IN  <<m>> \o Ascending(S \ {m})

\* DockerSandbox.stop on the record: stopped, or error when the engine fails.
Stopped(box, stopOk) ==
    IF stopOk
    THEN [box EXCEPT !.status = STOPPED, !.engine = AfterStop(box.engine)]
    ELSE [box EXCEPT !.status = ERROR]

\* DockerSandbox.cleanup on the record (remove_on_exit as configured by
\* default): the container is removed and the handle dropped; a failure of
\* the engine is swallowed and the handle dropped all the same.
Cleaned(box, engineOk) ==
    [box EXCEPT !.container = FALSE,
                !.engine = IF box.container /\ engineOk THEN "absent"
                           ELSE box.engine]

\* manager.create_sandbox for a sandbox outside the pool.
manager_create_sandbox(i) ==
    /\ i \in FirstFresh(1)
    /\ \E o \in StartOutcomes : managed' = [managed EXCEPT ![i] = Created(o)]
    /\ last' = NoEvent
    /\ UNCHANGED <<sandbox_pool, busy, pool_initialized, lease, replacements, pending>>
    /\ UNCHANGED <<dockervars, nbvars, toolvars>>

\* initialize_pool(size): a second call is a ConfigError; the members are
\* created, their ids pushed onto the idle queue, the pool marked initialized.
initialize_pool(size) ==
    /\ IF pool_initialized
       THEN /\ last' = NoEvent
            /\ UNCHANGED <<managed, sandbox_pool, pool_initialized>>
       ELSE /\ Cardinality(FirstFresh(size)) = size
            /\ \E o \in [FirstFresh(size) -> StartOutcomes] :
                   managed' = [i \in Ids |-> IF i \in FirstFresh(size)
                                             THEN Created(o[i]) ELSE managed[i]]
            /\ sandbox_pool' = sandbox_pool \o Ascending(FirstFresh(size))
            /\ pool_initialized' = TRUE
            /\ last' = NoEvent
    /\ UNCHANGED <<busy, lease, replacements>>
    /\ UNCHANGED <<dockervars, nbvars, toolvars>>
    /\ UNCHANGED pending

\* stop_sandbox(id): unknown -> false; else sandbox.stop(), which with a
\* container handle sets STOPPING and waits for the engine.
stop_sandbox(i) ==
    /\ pending = NoPending
    /\ IF managed[i].known /\ managed[i].container
       THEN /\ managed' = [managed EXCEPT ![i].status = STOPPING]
            /\ pending' = [op |-> "stop", id |-> i]
            /\ last' = NoEvent
       ELSE /\ last' = NoEvent
            /\ UNCHANGED <<managed, pending>>
    /\ UNCHANGED <<sandbox_pool, busy, pool_initialized, lease, replacements>>
    /\ UNCHANGED <<dockervars, nbvars, toolvars>>

stop_sandbox_return(i) ==
    /\ pending = [op |-> "stop", id |-> i]
    /\ \E stopOk \in BOOLEAN :
           managed' = [managed EXCEPT ![i] = Stopped(managed[i], stopOk)]
    /\ pending' = NoPending
    /\ last' = NoEvent
    /\ UNCHANGED <<sandbox_pool, busy, pool_initialized, lease, replacements>>
    /\ UNCHANGED <<dockervars, nbvars, toolvars>>

\* delete_sandbox(id) on a known id: the id leaves the pool (idle or busy),
\* then sandbox.stop() (best-effort), which waits for the engine when a
\* container handle is held; with no handle stop and cleanup do nothing and
\* the id leaves the map at once.
DeleteKnown(i) ==
    /\ sandbox_pool' = Without(sandbox_pool, i)
    /\ busy' = busy \ {i}
    /\ IF managed[i].container
       THEN /\ managed' = [managed EXCEPT ![i].status = STOPPING]
            /\ pending' = [op |-> "delete", id |-> i]
       ELSE /\ managed' = [managed EXCEPT ![i].known = FALSE]
            /\ UNCHANGED pending

\* delete_sandbox(id): unknown -> false.
delete_sandbox(i) ==
    /\ pending = NoPending
    /\ IF ~managed[i].known
       THEN UNCHANGED <<managed, sandbox_pool, busy, pending>>
       ELSE DeleteKnown(i)
    /\ last' = NoEvent
    /\ UNCHANGED <<pool_initialized, lease, replacements>>
    /\ UNCHANGED <<dockervars, nbvars, toolvars>>

\* ... the stop returns or fails, then sandbox.cleanup(), then the id is
\* removed from the map and delete_sandbox returns true.
delete_sandbox_return(i) ==
    /\ pending = [op |-> "delete", id |-> i]
    /\ \E stopOk \in BOOLEAN, engineOk \in BOOLEAN :
          /\ managed' = [managed EXCEPT ![i] =
                            [Cleaned(Stopped(managed[i], stopOk), engineOk)
                                EXCEPT !.known = FALSE]]
          /\ last' = NoEvent
    /\ pending' = NoPending
    /\ UNCHANGED <<sandbox_pool, busy, pool_initialized, lease, replacements>>
    /\ UNCHANGED <<dockervars, nbvars, toolvars>>

NoLease == [pc |-> "idle", id |-> 0]

\* A lease that reads the head of the idle queue and leaves it there.
AfterLeasePeek(queue) == queue

\* Lease step 1: the head is popped off the idle queue.
AfterLease(queue) == Tail(queue)

\* Lease steps 1-2 under the mutex: pop the head, move it to busy.
Grant(c) ==
    /\ sandbox_pool' = AfterLease(sandbox_pool)
    /\ busy' = busy \cup {Head(sandbox_pool)}
    /\ lease' = [lease EXCEPT ![c] = [pc |-> "executing",
                                      id |-> Head(sandbox_pool)]]
    /\ last' = [NoEvent EXCEPT !.op = "lease", !.s = Head(sandbox_pool)]

\* execute_tool_in_pool: with no pool a ValueError; with an idle sandbox the
\* lease is granted and the tool runs outside the mutex; with none the
\* caller waits for the idle-available signal.
execute_tool_in_pool(c) ==
    /\ lease[c].pc = "idle"
    /\ IF ~pool_initialized
       THEN /\ last' = NoEvent
            /\ UNCHANGED <<sandbox_pool, busy, lease>>
       ELSE IF sandbox_pool # <<>>
       THEN Grant(c)
       ELSE /\ lease' = [lease EXCEPT ![c].pc = "waiting"]
            /\ last' = NoEvent
            /\ UNCHANGED <<sandbox_pool, busy>>
    /\ UNCHANGED <<managed, pool_initialized, replacements>>
    /\ UNCHANGED <<dockervars, nbvars, toolvars>>
    /\ UNCHANGED pending

\* A waiter is signalled and takes the head.
lease_wake(c) ==
    /\ lease[c].pc = "waiting" /\ sandbox_pool # <<>>
    /\ Grant(c)
    /\ UNCHANGED <<managed, pool_initialized, replacements>>
    /\ UNCHANGED <<dockervars, nbvars, toolvars>>
    /\ UNCHANGED pending

\* A wait that expires on a caller the signal has already reached: the head
\* of the queue is taken and TimeoutError is raised all the same.
lease_timeout_after_wake(c) ==
    /\ lease[c].pc = "waiting" /\ sandbox_pool # <<>>
    /\ sandbox_pool' = Tail(sandbox_pool)
    /\ busy' = busy \cup {Head(sandbox_pool)}
    /\ lease' = [lease EXCEPT ![c] = NoLease]
    /\ last' = [NoEvent EXCEPT !.op = "execute_tool_in_pool", !.raised = TRUE,
                               !.error = "TimeoutError"]
    /\ UNCHANGED <<managed, pool_initialized, replacements>>
    /\ UNCHANGED <<dockervars, nbvars, toolvars>>
    /\ UNCHANGED pending

\* The wait expires with no sandbox idle: TimeoutError.
lease_timeout(c) ==
    /\ lease[c].pc = "waiting" /\ sandbox_pool = <<>>
    /\ lease' = [lease EXCEPT ![c] = NoLease]
    /\ last' = [NoEvent EXCEPT !.op = "execute_tool_in_pool", !.raised = TRUE,
                               !.error = "TimeoutError"]
    /\ UNCHANGED <<managed, sandbox_pool, busy, pool_initialized, replacements>>
    /\ UNCHANGED <<dockervars, nbvars, toolvars>>
    /\ UNCHANGED pending

\* A queue that takes a released id at its front.
EnqueueFirst(queue, i) == <<i>> \o queue

\* A released or new member goes to the tail of the idle queue.
Enqueue(queue, i) == Append(queue, i)

\* Lease steps 4-5, in the finally: a sandbox still known and running goes
\* to the tail of the idle queue, another one is to be replaced; the id
\* leaves busy.
Release(c) ==
    /\ IF managed[lease[c].id].known /\ managed[lease[c].id].status = RUNNING
       THEN /\ sandbox_pool' = Enqueue(sandbox_pool, lease[c].id)
            /\ UNCHANGED replacements
       ELSE /\ replacements' = replacements + 1
            /\ UNCHANGED sandbox_pool
    /\ busy' = busy \ {lease[c].id}
    /\ lease' = [lease EXCEPT ![c] = NoLease]

\* The tool call of the lease returns (or raises) and the finally runs.
lease_release(c) ==
    /\ lease[c].pc = "executing"
    /\ Release(c)
    /\ last' = NoEvent
    /\ UNCHANGED <<managed, pool_initialized>>
    /\ UNCHANGED <<dockervars, nbvars, toolvars>>
    /\ UNCHANGED pending

\* A cancelled caller whose lease is dropped without the finally.
CancelGrantedNoFinally(c) ==
    /\ lease' = [lease EXCEPT ![c] = NoLease]
    /\ UNCHANGED <<sandbox_pool, busy, replacements>>

\* CancelledError in the tool call unwinds through the finally.
CancelGranted(c) == Release(c)

\* The caller's task is cancelled: while it waits for an idle sandbox it
\* just leaves; with a lease granted it is cancelled in the tool call.
cancel(c) ==
    /\ lease[c].pc # "idle"
    /\ IF lease[c].pc = "waiting"
       THEN /\ lease' = [lease EXCEPT ![c] = NoLease]
            /\ UNCHANGED <<sandbox_pool, busy, replacements>>
       ELSE CancelGranted(c)
    /\ last' = [NoEvent EXCEPT !.op = "cancel", !.s = lease[c].id]
    /\ UNCHANGED <<managed, pool_initialized>>
    /\ UNCHANGED <<dockervars, nbvars, toolvars>>
    /\ UNCHANGED pending

\* The replacement of a member that did not come back: created with the
\* pool's config and enqueued.
replace_member(i) ==
    /\ replacements > 0 /\ i \in FirstFresh(1)
    /\ \E o \in StartOutcomes : managed' = [managed EXCEPT ![i] = Created(o)]
    /\ sandbox_pool' = Enqueue(sandbox_pool, i)
    /\ replacements' = replacements - 1
    /\ last' = NoEvent
    /\ UNCHANGED <<busy, pool_initialized, lease>>
    /\ UNCHANGED <<dockervars, nbvars, toolvars>>
    /\ UNCHANGED pending

\* A TTL rule that exempts nothing.
ReapableAny(i) == TRUE

\* The idle TTL applies to sandboxes outside the pool, whenever it has run
\* out; idle pool members are exempt.
Reapable(i) == i \notin Members(sandbox_pool)

\* A janitor tick on one sandbox: it purges a sandbox in error or stopped
\* state and reaps a sandbox outside the pool whose idle TTL has run out;
\* it never touches a busy pool member.
janitor_tick(i) ==
    /\ managed[i].known /\ pending = NoPending
    /\ i \notin busy
    /\ \/ managed[i].status \in {ERROR, STOPPED}
       \/ Reapable(i)
    /\ DeleteKnown(i)
    /\ last' = [NoEvent EXCEPT !.op = "janitor", !.s = i]
    /\ UNCHANGED <<pool_initialized, lease, replacements>>
    /\ UNCHANGED <<dockervars, nbvars, toolvars>>

NextManager ==
    \/ \E i \in Ids : manager_create_sandbox(i)
    \/ \E size \in PoolSizes : initialize_pool(size)
    \/ \E i \in Ids : stop_sandbox(i)
    \/ \E i \in Ids : stop_sandbox_return(i)
    \/ \E i \in Ids : delete_sandbox(i)
    \/ \E i \in Ids : delete_sandbox_return(i)
    \/ \E c \in Callers : execute_tool_in_pool(c)
    \/ \E c \in Callers : lease_wake(c)
    \/ \E c \in Callers : lease_timeout(c)
    \/ \E c \in Callers : lease_release(c)
    \/ \E i \in Ids : replace_member(i)
    \/ \E i \in Ids : janitor_tick(i)

\* The engine's image store plays no part in the manager's bookkeeping.
InitManager == Init /\ image

SpecManager == InitManager /\ [][NextManager]_vars

\* The warm pool and what runs beside it: creations and deletions by id,
\* leases with their timeouts and cancellations, replacements, the janitor.
NextPool ==
    \/ \E i \in Ids : manager_create_sandbox(i)
    \/ \E size \in PoolSizes : initialize_pool(size)
    \/ \E i \in Ids : delete_sandbox(i)
    \/ \E i \in Ids : delete_sandbox_return(i)
    \/ \E c \in Callers : execute_tool_in_pool(c)
    \/ \E c \in Callers : lease_wake(c)
    \/ \E c \in Callers : lease_timeout(c)
    \/ \E c \in Callers : lease_release(c)
    \/ \E c \in Callers : cancel(c)
    \/ \E i \in Ids : replace_member(i)
    \/ \E i \in Ids : janitor_tick(i)

SpecPool == InitManager /\ [][NextPool]_vars

\* ================================================================ claims

\* C1: in every reachable state, status = running implies that the sandbox
\* holds a container handle and that the engine reports the container as
\* running.
C1_RunningHasRunningContainer ==
    \A s \in Sandboxes :
        status[s] = RUNNING => container[s] /\ engine[s] = "running"

\* C2: when start fails at any step, every resource acquired so far is
\* released before start returns: the sandbox holds neither a container
\* handle nor a client.
C2_FailedStartReleasesResources ==
    (last.op = "start" /\ last.failed) =>
        (~container[last.s] /\ ~client[last.s])

\* C3: start raises whenever a step of it fails, and never returns normally
\* for a sandbox that did not reach running.
C3_FailedStartRaises ==
    last.op = "start" =>
        /\ last.failed => last.raised
        /\ ~last.raised => status[last.s] = RUNNING

\* C4: when the start of a create_sandbox call fails, create_sandbox raises,
\* the id is not recorded in the manager's map and no engine container named
\* sandbox-<id> is left behind.
C4_FailedCreateLeavesNothing ==
    (last.op = "start" /\ last.outer # "none" /\ last.failed) =>
        /\ last.outer = "raised"
        /\ last.s \notin sandboxes
        /\ engine[last.s] = "absent"

\* C5: the error status is terminal: once a sandbox's status is error, no
\* later step of start, stop, cleanup or execute_command changes it.
C5_ErrorIsTerminal ==
    [][\A s \in Sandboxes : status[s] = ERROR => status'[s] = ERROR]_vars

\* C6: every status change of a sandbox is initializing -> running,
\* running -> stopping, stopping -> stopped, or a move into error from
\* initializing, running or stopping.
LifecycleSteps ==
    {<<INITIALIZING, RUNNING>>, <<RUNNING, STOPPING>>, <<STOPPING, STOPPED>>,
     <<INITIALIZING, ERROR>>, <<RUNNING, ERROR>>, <<STOPPING, ERROR>>}
C6_OnlyLifecycleTransitions ==
    [][\A s \in Sandboxes :
          status'[s] # status[s] => <<status[s], status'[s]>> \in LifecycleSteps]_vars

\* C7: a start sets the status to running only after the engine has
\* reported the container as running to that start and that start has bound
\* every tool of the config's tool map; a start in which either did not
\* happen does not end with the status running.
C7_RunningOnlyAfterReportAndBinding ==
    [][\A s \in Sandboxes, t \in Tasks :
          (/\ Starting(s, t)
           /\ status'[s] = RUNNING
           /\ (status[s] # RUNNING \/ task'[s][t].pc = "done"))
          => /\ task[s][t].saw
             /\ task[s][t].bound
             /\ config[s].tools_config \subseteq tools[s]]_vars

\* C7 witness: a start has just returned with the container reported
\* running, the tools of the config bound and the status running.
C7_Witness ==
    /\ last.op = "start" /\ ~last.failed
    /\ status[last.s] = RUNNING
    /\ engine[last.s] = "running"
    /\ tools[last.s] = config[last.s].tools_config

\* C8: no sandbox is in error without an error reason in its metadata,
\* whether the failure came from start or from stop.
C8_ErrorHasReason ==
    \A s \in Sandboxes : status[s] = ERROR => metadata[s].error

\* C9: execute_command never raises to its caller, in any sandbox state;
\* a timeout result and an engine-error result carry exit_code -1.
C9_ExecuteCommandNeverRaises ==
    last.op = "execute_command" =>
        /\ ~last.raised
        /\ last.status = TIMEOUT => last.exit_code = -1

\* C10: execute_command called with timeout 0 on a sandbox that holds a
\* container returns a CommandResult with status timeout; it does not fall
\* back to the 30 s default and does not return the command's normal result.
C10_ZeroTimeoutTimesOut ==
    (last.op = "execute_command" /\ last.timeout = 0 /\ ~last.raised) =>
        last.status = TIMEOUT

\* C11: when execute_command times out, a kill of the exec process is
\* attempted before or when the timeout result is returned.
C11_TimeoutKillsExec ==
    (last.op = "execute_command" /\ last.status = TIMEOUT) => last.killed

\* A step in which stop() is called on sandbox s.
StopCalled(s) ==
    /\ active = Idle
    /\ active' = <<"stop", s, 0>> \/ (last'.op = "stop" /\ last'.s = s)

\* C12: stop on a running sandbox sets the status to stopping, then to
\* stopped when the engine stop succeeds and to error when it fails; stop
\* returns without raising.
C12_StopOfRunning ==
    [][\A s \in Sandboxes :
          /\ (status[s] = RUNNING /\ StopCalled(s)) => status'[s] = STOPPING
          /\ (Stopping(s) /\ active' = Idle) =>
                 /\ last'.op = "stop" /\ ~last'.raised
                 /\ status'[s] = IF last'.failed THEN ERROR ELSE STOPPED]_vars

\* C13: stopping a sandbox that is already stopped leaves its status
\* stopped before, during and after the stop.
C13_StopOfStoppedChangesNothing ==
    [][\A s \in Sandboxes :
          (status[s] = STOPPED /\ StopCalled(s)) => status'[s] = STOPPED]_vars

\* C14: cleanup never raises and leaves the sandbox with no container
\* handle and no engine client; a second cleanup right after it makes no
\* engine call and changes nothing.
C14_CleanupIdempotent ==
    last.op = "cleanup" =>
        /\ ~last.raised
        /\ ~container[last.s] /\ ~client[last.s]
        /\ last.again => (last.calls = 0 /\ ~last.changed)

\* C14 witness: a second cleanup in a row on a sandbox whose container the
\* first one removed.
C14_Witness ==
    /\ last.op = "cleanup" /\ last.again
    /\ metadata[last.s].container_id
    /\ engine[last.s] = "absent"

\* C15: after cleanup has returned, no engine client obtained by an earlier
\* start of the sandbox is left without a close.
C15_ClientsClosedOnce ==
    last.op = "cleanup" => openClients[last.s] = 0

\* C16: a notebook execute that reaches its deadline without the idle
\* status frame of its own request returns status timeout, and does not
\* raise.
C16_DeadlineIsTimeout ==
    (last.op = "execute_python_code" /\ last.deadline) =>
        (~last.raised /\ last.status = TIMEOUT)

\* C17: a notebook execute during which a socket error occurred, in
\* sending the request or in reading frames, returns status error.
C17_SocketErrorIsError ==
    (last.op = "execute_python_code" /\ last.sock_error) => last.status = ERROR

C19_OneKernelUntilCleanup ==
    [][\A s \in Sandboxes :
          /\ (kernel_id[s] # 0 /\ kernel_id'[s] # kernel_id[s]) =>
                 (last'.op = "cleanup" /\ last'.s = s)
          /\ (ws[s] # 0 /\ ws'[s] # ws[s]) =>
                 (last'.op = "cleanup" /\ last'.s = s)
          /\ (/\ last'.op = "execute_python_code" /\ last'.s = s
              /\ last'.code = "read" /\ last'.after_define /\ last'.idle)
                 => last'.status = SUCCESS]_vars

\* C20: in a notebook start the image is there (built if it was absent)
\* when the container steps begin; a kernel is created only after a probe
\* of this start was answered; the websocket is opened only on a kernel id
\* already held.
C20_BootOrder ==
    [][\A s \in Sandboxes, t \in Tasks :
          (kind[s] = DOCKER_NOTEBOOK /\ Starting(s, t)) =>
              /\ (task[s][t].pc = "ensure_image" /\ task'[s][t].pc # "ensure_image")
                     => image
              /\ kernel_id'[s] \notin {0, kernel_id[s]}
                     => (base_url[s] /\ task[s][t].pc = "create_kernel")
              /\ ws'[s] \notin {0, ws[s]}
                     => (kernel_id[s] # 0 /\ ws'[s] = kernel_id[s])]_vars

\* C21: notebook cleanup never raises and always runs the parent cleanup,
\* also when the websocket close or the kernel DELETE fails: after it the
\* sandbox holds no websocket, no kernel id, no container handle and no
\* engine client.
C21_NotebookCleanupReachesParent ==
    (last.op = "cleanup" /\ kind[last.s] = DOCKER_NOTEBOOK) =>
        /\ ~last.raised
        /\ ws[last.s] = 0 /\ kernel_id[last.s] = 0
        /\ ~container[last.s] /\ ~client[last.s]

\* C21 witness: a cleanup in which the close and the DELETE both failed, of
\* a sandbox that held a container handle and a client.
C21_Witness ==
    /\ last.op = "cleanup" /\ kind[last.s] = DOCKER_NOTEBOOK
    /\ last.ws_failed /\ last.delete_failed
    /\ last.calls = 2

\* C22: python_executor called with empty code (nothing but whitespace)
\* returns, without raising, a ToolResult with status error and error
\* "No code provided"; it makes no put_archive call and runs no command.
C22_EmptyCodeIsRejected ==
    (/\ last.op = "python_executor"
     /\ \A i \in 1..Len(last.tool_code) : last.tool_code[i] \in Whitespace) =>
        /\ ~last.raised
        /\ last.status = ERROR /\ last.error = "No code provided"
        /\ last.writes = 0 /\ last.commands = 0

\* A call with whitespace-only code has returned on a sandbox that holds a
\* container, where a script could have been staged and run.
C22_Witness ==
    /\ last.op = "python_executor"
    /\ last.tool_code = <<" ", "\n">>
    /\ container[last.s] /\ status[last.s] = RUNNING

\* C23: for code that prints and completes normally (the script ran to its
\* end and no statement raised), python_executor returns status success, an
\* output equal to exactly the printed text, and error None.
C23_OutputIsPrintedText ==
    (/\ last.op = "python_executor"
     /\ last.ran /\ ~Run(last.tool_code).raised) =>
        /\ last.status = SUCCESS
        /\ last.output = Run(last.tool_code).output
        /\ last.error = "None"

\* part occurs in text.
Contains(text, part) ==
    \E i \in 0..(Len(text) - Len(part)) :
        SubSeq(text, i + 1, i + Len(part)) = part

\* C24: for code that prints and completes normally in a running managed
\* sandbox, manager.execute_tool returns a result whose output contains the
\* printed text and whose error is None.
C24_ManagedOutputContainsText ==
    (/\ last.op = "python_executor" /\ last.mgr /\ last.was_running
     /\ last.ran /\ ~Run(last.tool_code).raised) =>
        /\ Contains(last.output, Run(last.tool_code).output)
        /\ last.error = "None"

\* C25: a tool call whose command the engine runs, and which runs longer
\* than the call's timeout, returns, without raising, a ToolResult with
\* status error that carries the timeout of the CommandResult; no step of
\* the call changes the sandbox's status.
C25_ToolTimeoutIsError ==
    /\ []((/\ last.op = "python_executor" /\ last.error # "engine error"
           /\ last.timeout # NoTimeout /\ last.dur > last.timeout) =>
              /\ ~last.raised
              /\ last.status = ERROR /\ last.error = "Command timed out")
    /\ [][last'.op = "python_executor" => status' = status]_vars

\* C26: manager.execute_tool with an id the manager does not know raises
\* NotFound and runs no tool: every call that got as far as the sandbox or
\* the tool was made with a known id; and the raise changes neither the
\* manager's map, idle queue and busy set nor any tool call.
C26_UnknownIdIsNotFound ==
    /\ []((/\ last.op \in {"execute_tool", "python_executor"}
           /\ (last.op = "python_executor" => last.mgr)
           /\ last.s \notin sandboxes) =>
              (last.raised /\ last.error = "NotFound"))
    /\ [][(last'.op = "execute_tool" /\ last'.error = "NotFound") =>
              UNCHANGED <<sandboxes, sandbox_pool, busy, pycall, exec>>]_vars

\* The call was made with the id of a sandbox that exists, built by the
\* factory, and that the manager does not hold.
C26_Witness ==
    /\ last.op = "execute_tool" /\ last.raised /\ last.error = "NotFound"
    /\ owner[last.s] = "factory" /\ last.s \notin sandboxes

\* C27: a freshly started manager lists no sandboxes; when create_sandbox
\* returns an id, the list has exactly one more entry than before, it
\* contains the id, and the sandbox with that id has status running.
C27_CreatedIsListedRunning ==
    /\ sandboxes = {}
    /\ []((last.op = "start" /\ last.outer = "returned") =>
              (last.s \in sandboxes /\ status[last.s] = RUNNING))
    /\ [][(last'.op = "start" /\ last'.outer = "returned") =>
              (last'.s \notin sandboxes /\ sandboxes' = sandboxes \cup {last'.s})]_vars

\* C28: when delete_sandbox(id) returns true (the id leaves the map), the
\* id is in neither the idle queue nor the busy set, and its engine
\* container is absent or exited, whatever the stop did and whatever leases
\* and janitor ticks ran in between.
C28_DeletedIsGone ==
    [][\A i \in Ids :
          (managed[i].known /\ ~managed'[i].known) =>
              /\ i \notin Members(sandbox_pool') /\ i \notin busy'
              /\ managed'[i].engine \in {"absent", "exited"}]_vars

\* C29: every id in the idle queue belongs to a sandbox whose status is
\* running and is not in the busy set.
C29_IdleIsRunningNotBusy ==
    \A k \in 1..Len(sandbox_pool) :
        /\ managed[sandbox_pool[k]].status = RUNNING
        /\ sandbox_pool[k] \notin busy

\* C30: no two callers of execute_tool_in_pool hold a lease on the same
\* sandbox id at the same time.
C30_OneLeasePerId ==
    \A c1 \in Callers, c2 \in Callers :
        (c1 # c2 /\ lease[c1].pc = "executing" /\ lease[c2].pc = "executing") =>
            lease[c1].id # lease[c2].id

\* Two callers execute through the pool at the same time.
C30_Witness ==
    \E c1 \in Callers, c2 \in Callers :
        /\ c1 # c2
        /\ lease[c1].pc = "executing" /\ lease[c2].pc = "executing"

\* C31: the pool leases in FIFO order of arrival in the idle queue: a lease
\* takes the id at the head, ids that stay keep their order, and an id that
\* arrives (created, released or a replacement) stands behind every id that
\* was already idle; so the id released first is the one leased next.
C31_LeasesAreFifo ==
    [][/\ \A c \in Callers :
              (lease[c].pc # "executing" /\ lease'[c].pc = "executing") =>
                  /\ sandbox_pool # <<>>
                  /\ lease'[c].id = sandbox_pool[1]
       /\ \A j1 \in 1..Len(sandbox_pool), k1 \in 1..Len(sandbox_pool) :
              \A j2 \in 1..Len(sandbox_pool'), k2 \in 1..Len(sandbox_pool') :
                  (/\ sandbox_pool[j1] = sandbox_pool'[j2]
                   /\ sandbox_pool[k1] = sandbox_pool'[k2]
                   /\ j1 < k1) => j2 < k2
       /\ \A j2 \in 1..Len(sandbox_pool'), k2 \in 1..Len(sandbox_pool') :
              (/\ sandbox_pool'[j2] \notin Members(sandbox_pool)
               /\ sandbox_pool'[k2] \in Members(sandbox_pool)) => k2 < j2]_vars

\* A lease has just taken a sandbox that was released before the one still
\* idle, although it was created after it.
C31_Witness ==
    /\ last.op = "lease"
    /\ \E k \in 1..Len(sandbox_pool) : sandbox_pool[k] < last.s

C33_CancelKeepsPool ==
    /\ [](\A i \in busy :
             \E c \in Callers : lease[c].pc = "executing" /\ lease[c].id = i)
    /\ [][\A c \in Callers :
             (last'.op = "cancel" /\ lease'[c] # lease[c]) =>
                 /\ lease'[c] = NoLease
                 /\ lease[c].pc = "waiting" =>
                        (busy' = busy /\ sandbox_pool' = sandbox_pool)
                 /\ lease[c].pc = "executing" =>
                        /\ lease[c].id \notin busy'
                        /\ \/ lease[c].id \in Members(sandbox_pool')
                           \/ replacements' = replacements + 1]_vars

\* A caller was cancelled in its tool call and its sandbox is idle again
\* while another caller still holds a lease.
C33_Witness ==
    /\ last.op = "cancel" /\ last.s \in Members(sandbox_pool)
    /\ \E c \in Callers : lease[c].pc = "executing"

\* C34: a janitor tick never deletes or stops a sandbox that is leased (in
\* the busy set or held by a caller), and it deletes a member of the idle
\* queue only for its error or stopped state, never for its idle time: the
\* idle TTL reaps only sandboxes outside the pool.
C34_JanitorSparesPool ==
    [][last'.op = "janitor" =>
          /\ managed[last'.s].known
          /\ managed'[last'.s] # managed[last'.s]
          /\ \A i \in Ids : managed'[i] # managed[i] => i = last'.s
          /\ last'.s \notin busy
          /\ \A c \in Callers :
                 lease[c].pc = "executing" => lease[c].id # last'.s
          /\ last'.s \in Members(sandbox_pool) =>
                 managed[last'.s].status \in {ERROR, STOPPED}]_vars

\* A tick is deleting a started sandbox outside the pool while a member of
\* the pool is leased.
C34_Witness ==
    /\ last.op = "janitor" /\ pending = [op |-> "delete", id |-> last.s]
    /\ busy # {}

\* C35: the result of execute_python_code depends only on the frames whose
\* parent msg_id is the msg_id of its request: a frame of another request,
\* such as what an earlier call left unread, is skipped, it neither ends
\* the read loop nor marks an error; and the status returned is error
\* exactly when the call saw an error of its own (or its socket failed).
C35_ForeignFramesAreSkipped ==
    [][\A s \in Sandboxes, n \in Calls :
          /\ (/\ Executing(s, n) /\ calls[n].pc = "loop"
              /\ ws[s] # 0 /\ frames[ws[s]] # <<>>
              /\ frames'[ws[s]] = Tail(frames[ws[s]])
              /\ Head(frames[ws[s]]).msg # n) =>
                 /\ calls'[n].pc = "loop"
                 /\ calls'[n].error_occurred = calls[n].error_occurred
          /\ (/\ Executing(s, n) /\ calls[n].pc = "loop"
              /\ last'.op = "execute_python_code") =>
                 (last'.status = ERROR) = calls[n].error_occurred]_vars

\* A call whose request is answered by the idle status alone is still
\* reading after it took a frame: one that an earlier call left unread.
C35_Witness ==
    \E s \in Sandboxes, n \in Calls :
        /\ Executing(s, n) /\ calls[n].pc = "loop"
        /\ calls[n].code = "define" /\ calls[n].read_any
        /\ ~calls[n].error_occurred

\* C36: when stop or cleanup has run while the one start of a sandbox was
\* suspended, so that the status is no longer initializing or the container
\* handle is gone, the start that completes late does not set the status to
\* running.
C36_LateStartNotRunning ==
    [][\A s \in Sandboxes, t \in Tasks :
          (/\ task[s][t].pc = "set_running"
           /\ \A u \in Tasks \ {t} : task[s][u].pc = "unused"
           /\ status[s] # INITIALIZING \/ ~container[s]) =>
              status'[s] # RUNNING]_vars

\* C37: a notebook sandbox with no start in flight whose status is running
\* has its kernel id and its websocket set, and a start that raised (the
\* probe failed in all its attempts, or the kernel was not created) has
\* not left the sandbox running.
C37_RunningHasKernel ==
    \A s \in Sandboxes :
        (/\ kind[s] = DOCKER_NOTEBOOK /\ status[s] = RUNNING
         /\ \A t \in Tasks : task[s][t].pc \in {"unused", "done"}) =>
            /\ kernel_id[s] # 0 /\ ws[s] # 0
            /\ ~(last.op = "start" /\ last.s = s /\ last.raised)

\* C38: the start of a notebook sandbox goes on to the setup of the gateway
\* (the image build is its first step) only when the base start has ended
\* with status running; after a base start that ended in error no setup
\* step is attempted.
C38_SetupOnlyWhenRunning ==
    [][\A s \in Sandboxes, t \in Tasks :
          (task[s][t].pc # "build_image" /\ task'[s][t].pc = "build_image") =>
              status'[s] = RUNNING]_vars

\* C39: execute_command leaves the status, the container handle, the engine
\* client and the metadata of the sandbox as they were, whether it raises,
\* returns success or error, or times out.
C39_ExecuteCommandFrame ==
    [][\A s \in Sandboxes :
          (exec'[s] # exec[s] \/ (last'.op = "execute_command" /\ last'.s = s)) =>
              /\ status'[s] = status[s] /\ container'[s] = container[s]
              /\ client'[s] = client[s] /\ metadata'[s] = metadata[s]]_vars

\* A command has timed out on a running sandbox, which is still running
\* with its handle and client.
C39_Witness ==
    /\ last.op = "execute_command" /\ last.status = TIMEOUT
    /\ status[last.s] = RUNNING /\ container[last.s] /\ client[last.s]

\* C40: python_executor never raises; it returns status error whenever the
\* user code raises an exception, and status success only when the script
\* ran and the user code completed without raising.
C40_ErrorIffUserCodeRaises ==
    last.op = "python_executor" =>
        /\ ~last.raised
        /\ (last.ran /\ Run(last.tool_code).raised) => last.status = ERROR
        /\ last.status = SUCCESS =>
               (last.ran /\ ~Run(last.tool_code).raised)

====
